---- MODULE Spec2Model ----
(***************************************************************************)
(* Melosphere: the rhythmic enhancer and the blender.                      *)
(*                                                                         *)
(* The repository holds two copies of the core: the functions of app.py    *)
(* (the Streamlit front-end) and the utility modules rhythm_utils.py and   *)
(* blend_utils.py.  Both copies are modelled; a definition that models     *)
(* app.py is prefixed app_, one that models a utility module is prefixed   *)
(* rhythm_utils_ or blend_utils_, and a definition without prefix models   *)
(* code that is the same in both copies (or the Python built-in named).    *)
(*                                                                         *)
(* A Python str is a sequence of one-character strings.                    *)
(***************************************************************************)
EXTENDS Integers, Sequences, FiniteSets, TLC

VARIABLES
    original,           \* argument: the source lyric line
    translated,         \* argument of the enhancer: one translated line
    max_fillers,        \* argument of the enhancer
    translations,       \* argument of the blender: translations_by_lang
    entropy,            \* hidden state of the module-level generator of `random`
    pc,                 \* "init", or the function that has returned
    calls,              \* calls of the enhancer that have returned, up to MaxCalls
    fillers_str,        \* enhancer local: the string build_fillers returned
    enhanced,           \* enhancer result [0]
    orig_syllables,     \* enhancer result [1]
    trans_syll_before,  \* enhancer result [2]
    trans_syll_after,   \* enhancer result [3]
    diff,               \* enhancer result [4]
    raised,             \* "" or the exception the call ended in
    assembled,          \* blender local: the token list before joining
    blended,            \* blender result
    selected,           \* main: the languages selected, in the user's order
    mode,               \* main: the blending mode selected
    translate_client,   \* module level of app.py: "client" or "None"
    failing,            \* the languages whose request to the provider raises
    workers,            \* the futures of the pool: language |-> position and locals
    melosphere_logs,    \* st.session_state["melosphere_logs"], a list of messages
    fut,                \* main: the completed future being handled ("" for none)
    main_log_read,      \* main, inside log: the value read from melosphere_logs
    translations_clean,     \* main: dict language |-> translation
    translations_enhanced,  \* main: dict language |-> enhanced translation
    overall_stats,          \* main: dict language |-> syllable counts
    translations_list_for_blend, \* main: the list handed to the blender
    lyric_line,         \* main: the text of the lyric text area
    lyric_line_clean,   \* main: clean_text(lyric_line)
    pending,            \* as_completed: the futures not yet yielded
    script_run_ctx      \* whether Streamlit attaches the session to pool threads

vars == <<original, translated, max_fillers, translations, entropy, pc, calls,
          fillers_str, enhanced, orig_syllables, trans_syll_before,
          trans_syll_after, diff, raised, assembled, blended,
          selected, mode, translate_client, failing, workers, melosphere_logs,
          fut, main_log_read, translations_clean, translations_enhanced,
          overall_stats, translations_list_for_blend,
              lyric_line, lyric_line_clean, pending, script_run_ctx>>

enhancerVars == <<fillers_str, enhanced, orig_syllables, trans_syll_before,
                  trans_syll_after, diff>>

blenderVars == <<assembled, blended>>

mainVars == <<selected, mode, translate_client, failing, workers, melosphere_logs,
              fut, main_log_read, translations_clean, translations_enhanced,
              overall_stats, translations_list_for_blend,
              lyric_line, lyric_line_clean, pending, script_run_ctx>>

\* a Python dict: its keys in insertion order and the value of every key
EmptyDict == [order |-> <<>>, value |-> <<>>]

\* main has not been entered
MainNotRun ==
    /\ selected = <<>> /\ mode = "" /\ translate_client = "client"
    /\ failing = {} /\ workers = <<>> /\ melosphere_logs = <<>>
    /\ fut = "" /\ main_log_read = <<>>
    /\ translations_clean = EmptyDict /\ translations_enhanced = EmptyDict
    /\ overall_stats = EmptyDict /\ translations_list_for_blend = <<>>
    /\ lyric_line = <<>> /\ lyric_line_clean = <<>>
    /\ pending = {} /\ script_run_ctx = "attached"

(***************************************************************************)
(* Bounds of the model.                                                    *)
(***************************************************************************)
\* longest translated line the enhancer is given, in characters
MaxLen == 3
\* most words of OriginalLine an original is made of
MaxOrigWords == 8
\* largest max_fillers tried (larger than the filler vocabulary)
MaxFillers == 7
\* calls of the enhancer counted on the same arguments
MaxCalls == 2
\* most tokens of a line, where the blender is given up to two lines
MaxPairTokens == 3
\* most tokens of a line, where the blender is given three lines or more
MaxSliceTokens == 4

(***************************************************************************)
(* Python str and list built-ins.                                          *)
(***************************************************************************)
Whitespace == {" ", "\t", "\n"}

\* str.lower() on one character: the upper-case letters the model uses
lower_char(ch) ==
    CASE ch = "A" -> "a"
      [] ch = "B" -> "b"
      [] ch = "C" -> "c"
      [] ch = "E" -> "e"
      [] ch = "I" -> "i"
      [] ch = "L" -> "l"
      [] ch = "S" -> "s"
      [] ch = "T" -> "t"
      [] OTHER -> ch

lower(s) == [i \in 1..Len(s) |-> lower_char(s[i])]

RECURSIVE lstrip(_)
lstrip(s) ==
    IF s = <<>> THEN s
    ELSE IF Head(s) \in Whitespace THEN lstrip(Tail(s)) ELSE s

RECURSIVE rstrip(_)
rstrip(s) ==
    IF s = <<>> THEN s
    ELSE IF s[Len(s)] \in Whitespace THEN rstrip(SubSeq(s, 1, Len(s) - 1)) ELSE s

strip(s) == rstrip(lstrip(s))

RECURSIVE split_from(_, _, _)
split_from(s, cur, acc) ==
    IF s = <<>> THEN (IF cur = <<>> THEN acc ELSE Append(acc, cur))
    ELSE IF Head(s) \in Whitespace
         THEN split_from(Tail(s), <<>>, IF cur = <<>> THEN acc ELSE Append(acc, cur))
         ELSE split_from(Tail(s), Append(cur, Head(s)), acc)

\* str.split() with no argument: the maximal runs of non-whitespace
split(s) == split_from(s, <<>>, <<>>)

RECURSIVE join(_, _)
\* sep.join(words)
join(sep, words) ==
    IF words = <<>> THEN <<>>
    ELSE IF Len(words) = 1 THEN words[1]
    ELSE words[1] \o sep \o join(sep, Tail(words))

RECURSIVE re_sub_spaces(_, _)
\* re.sub(r"\s+", " ", s): every maximal run of whitespace becomes one space
re_sub_spaces(s, in_run) ==
    IF s = <<>> THEN <<>>
    ELSE IF Head(s) \in Whitespace
         THEN (IF in_run THEN <<>> ELSE <<" ">>) \o re_sub_spaces(Tail(s), TRUE)
         ELSE <<Head(s)>> \o re_sub_spaces(Tail(s), FALSE)

RECURSIVE rfind(_, _)
\* str.rfind(ch) as a 0-based index, -1 when ch does not occur
rfind(s, ch) ==
    IF s = <<>> THEN -1
    ELSE IF s[Len(s)] = ch THEN Len(s) - 1
    ELSE rfind(SubSeq(s, 1, Len(s) - 1), ch)

RECURSIVE replace_chars(_, _, _)
\* every character of s that is in `chars` replaced by the string `by`
replace_chars(s, chars, by) ==
    IF s = <<>> THEN <<>>
    ELSE (IF Head(s) \in chars THEN by ELSE <<Head(s)>>)
         \o replace_chars(Tail(s), chars, by)

Min(a, b) == IF a <= b THEN a ELSE b
Max(a, b) == IF a >= b THEN a ELSE b

RECURSIVE SumSeq(_)
SumSeq(ns) == IF ns = <<>> THEN 0 ELSE Head(ns) + SumSeq(Tail(ns))

(***************************************************************************)
(* Syllable estimation.                                                    *)
(***************************************************************************)
AsciiLetters ==
    {"a", "b", "c", "d", "e", "f", "g", "h", "i", "j", "k", "l", "m",
     "n", "o", "p", "q", "r", "s", "t", "u", "v", "w", "x", "y", "z"}

\* the ASCII members of the vowel string (the others are non-ASCII characters,
\* which no line of the model contains)
Vowels == {"a", "e", "i", "o", "u", "y"}

RECURSIVE vowel_groups(_, _)
\* the loop over ch with prev_vowel: the number of maximal runs of vowels
vowel_groups(lw, prev_vowel) ==
    IF lw = <<>> THEN 0
    ELSE LET is_v == Head(lw) \in Vowels
         IN (IF is_v /\ ~prev_vowel THEN 1 ELSE 0) + vowel_groups(Tail(lw), is_v)

\* pronouncing's CMU dictionary, restricted to the words of the model's lines:
\* word |-> syllable_count(phones_for_word(word)[0])
cmudict ==
    (<<"i">> :> 1) @@ (<<"l", "o", "v", "e">> :> 1) @@ (<<"t", "h", "e">> :> 1)
    @@ (<<"s", "u", "m", "m", "e", "r">> :> 2)
    @@ (<<"b", "r", "e", "e", "z", "e">> :> 1)
    @@ (<<"a", "n", "d">> :> 1) @@ (<<"y", "o", "u">> :> 1)
    @@ (<<"s", "o">> :> 1) @@ (<<"m", "u", "c", "h">> :> 1)

\* pronouncing.phones_for_word lower-cases its argument before the lookup
phones_for_word(word) ==
    IF lower(word) \in DOMAIN cmudict THEN <<cmudict[lower(word)]>> ELSE <<>>

starts_with_en(lang_code) ==
    Len(lang_code) >= 2 /\ lang_code[1] = "e" /\ lang_code[2] = "n"

EN == <<"e", "n">>
XX == <<"x", "x">>

\* ---- rhythm_utils.py
rhythm_utils_clean_text(text) ==
    strip(replace_chars(text, {"\""}, <<>>))

\* a heuristic that counts one syllable for every word that holds a letter
syllable_count_one_per_word(word) ==
    IF SelectSeq(lower(word), LAMBDA ch : ch \in AsciiLetters) = <<>> THEN 0 ELSE 1

rhythm_utils_syllable_count_heuristic_word(word) ==
    LET lw == SelectSeq(lower(word), LAMBDA ch : ch \in AsciiLetters)
        groups == vowel_groups(lw, FALSE)
    IN IF lw = <<>> THEN 0
       ELSE IF groups > 0 THEN groups ELSE 1

rhythm_utils_count_syllables(text0, lang_code) ==
    LET text == rhythm_utils_clean_text(text0)
        words == split(text)
    IN IF text = <<>> THEN 0
       ELSE IF starts_with_en(lang_code)
            THEN SumSeq([i \in 1..Len(words) |->
                    IF phones_for_word(words[i]) /= <<>>
                    THEN phones_for_word(words[i])[1]
                    ELSE rhythm_utils_syllable_count_heuristic_word(words[i])])
            ELSE SumSeq([i \in 1..Len(words) |->
                    rhythm_utils_syllable_count_heuristic_word(words[i])])

\* ---- app.py
AppPunctuation == {",", ".", "!", "?", ";", ":", "-", "(", ")", "\"", "'"}

app_count_syllables_english(word) ==
    IF phones_for_word(word) /= <<>>
    THEN phones_for_word(word)[1]
    ELSE Len(SelectSeq(lower(word), LAMBDA ch : ch \in {"a", "e", "i", "o", "u"}))

app_count_syllables_heuristic(text0) ==
    LET text == replace_chars(text0, AppPunctuation, <<" ">>)
        words == split(text)
    IN SumSeq([i \in 1..Len(words) |->
            LET groups == vowel_groups(lower(words[i]), FALSE)
            IN IF groups = 0 THEN 1 ELSE groups])

app_count_syllables_general(text, lang_code) ==
    IF text = <<>> THEN 0
    ELSE IF starts_with_en(lang_code)
         THEN LET words == split(text)
              IN SumSeq([i \in 1..Len(words) |-> app_count_syllables_english(words[i])])
         ELSE app_count_syllables_heuristic(text)

(***************************************************************************)
(* Deterministic filler selection.  hashlib.sha256 and the generator of    *)
(* random.Random are library code: the model keeps what the functions      *)
(* below use of them, a hash of the seed text to a number and a generator  *)
(* whose every draw is a function of its state, over a small state space.  *)
(***************************************************************************)
RngMod == 64

Chars ==
    <<"a", "b", "c", "d", "e", "f", "g", "h", "i", "j", "k", "l", "m",
      "n", "o", "p", "q", "r", "s", "t", "u", "v", "w", "x", "y", "z",
      "A", "B", "I", "L", "T", " ", "\t", "\n", ",", ".", "!", "?", "\"", "7",
      "C", "E", "S", ":", "#", "0", "3", "4">>

ord(ch) == IF \E i \in 1..Len(Chars) : Chars[i] = ch
           THEN CHOOSE i \in 1..Len(Chars) : Chars[i] = ch
           ELSE 0

RECURSIVE sha256_seed_from(_, _)
sha256_seed_from(text, h) ==
    IF text = <<>> THEN h
    ELSE (sha256_seed_from(SubSeq(text, 1, Len(text) - 1), h) * 31
          + ord(text[Len(text)])) % RngMod

\* int(hashlib.sha256(seed_text.encode("utf-8")).hexdigest()[:16], 16)
sha256_seed(seed_text) == sha256_seed_from(seed_text, 7)

\* random.Random(seed): the state of a generator of its own
Random(seed) == seed % RngMod

\* one step of the generator
rng_step(state) == (state * 5 + 3) % RngMod

\* Random._randbelow(n), drawn in state `state`
randbelow(state, n) == (rng_step(state) \div 4) % n

RECURSIVE sample_loop(_, _, _, _, _, _)
\* random.sample's loop over a pool: result[i] = pool[j]; pool[j] = pool[n-i-1]
sample_loop(pool, n, i, k, state, result) ==
    IF i >= k THEN result
    ELSE LET j == randbelow(state, n - i)
         IN sample_loop([pool EXCEPT ![j + 1] = pool[n - i]], n, i + 1, k,
                        rng_step(state), Append(result, pool[j + 1]))

\* rnd.sample(population, k), for 0 <= k <= len(population)
sample(population, k, state) ==
    sample_loop(population, Len(population), 0, k, state, <<>>)

RECURSIVE choices_loop(_, _, _, _)
\* [rnd.choice(population) for _ in range(k)]
choices_loop(population, k, state, result) ==
    IF k <= 0 THEN result
    ELSE choices_loop(population, k - 1, rng_step(state),
                      Append(result, population[randbelow(state, Len(population)) + 1]))

_DEFAULT_FILLERS ==
    << <<"o", "h">>, <<"l", "a">>, <<"y", "e", "a", "h">>,
       <<"n", "a">>, <<"h", "e", "y">>, <<"m", "m", "m">> >>

\* what a call returns: the value, or the exception it ended in
Returned(value) == [exc |-> "", value |-> value]
Raised(exc) == [exc |-> exc, value |-> <<>>]

\* build_fillers drawing from the module-level generator instead of one
\* seeded from seed_text
build_fillers_unseeded(diff_, max_fillers_, seed_text) ==
    LET k == Min(max_fillers_, Max(0, diff_))
        rnd == Random(entropy)
    IN IF k = 0 THEN Returned(<<>>)
       ELSE IF k <= Len(_DEFAULT_FILLERS)
            THEN (IF k < 0 THEN Raised("ValueError")
                  ELSE Returned(join(<<" ">>, sample(_DEFAULT_FILLERS, k, rnd))))
            ELSE Returned(join(<<" ">>, choices_loop(_DEFAULT_FILLERS, k, rnd, <<>>)))

\* rhythm_utils.build_fillers.  seed_text is never None at the call site;
\* rnd.sample raises ValueError for a negative k.
build_fillers(diff_, max_fillers_, seed_text) ==
    LET k == Min(max_fillers_, Max(0, diff_))
        seed == sha256_seed(seed_text)
        rnd == Random(seed)
    IN IF k = 0 THEN Returned(<<>>)
       ELSE IF k <= Len(_DEFAULT_FILLERS)
            THEN (IF k < 0 THEN Raised("ValueError")
                  ELSE Returned(join(<<" ">>, sample(_DEFAULT_FILLERS, k, rnd))))
            ELSE Returned(join(<<" ">>, choices_loop(_DEFAULT_FILLERS, k, rnd, <<>>)))

_FILLERS ==
    << <<"o", "h">>, <<"l", "a">>, <<"y", "e", "a", "h">>,
       <<"n", "a">>, <<"h", "e", "y">>, <<"m", "m", "m">> >>

\* app._build_fillers
_build_fillers(diff_, max_fillers_, seed_text) ==
    LET fillers == _FILLERS
        k == Min(max_fillers_, Max(0, diff_))
        seed == sha256_seed(seed_text)
        rnd == Random(seed)
    IN IF k = 0 THEN Returned(<<>>)
       ELSE IF k <= Len(fillers)
            THEN (IF k < 0 THEN Raised("ValueError")
                  ELSE Returned(join(<<" ">>, sample(fillers, k, rnd))))
            ELSE Returned(join(<<" ">>, choices_loop(fillers, k, rnd, <<>>)))

SentenceFinal == {".", "!", "?"}

\* re.search(r'([.!?])\s*$', t): the 1-based index of the leftmost character
\* in .!? that only whitespace follows, 0 when there is none
search_final_punct(t) ==
    LET hits == {i \in 1..Len(t) :
                    /\ t[i] \in SentenceFinal
                    /\ \A j \in (i + 1)..Len(t) : t[j] \in Whitespace}
    IN IF hits = {} THEN 0 ELSE CHOOSE i \in hits : \A j \in hits : i <= j

\* an insertion that leaves no space between the comma and the fillers
insert_fillers_without_space(translated_text, fillers_str_) ==
    LET t == strip(translated_text)
        m == search_final_punct(t)
    IN IF fillers_str_ = <<>> THEN translated_text
       ELSE IF m /= 0
            THEN rstrip(SubSeq(t, 1, m - 1)) \o <<",">> \o fillers_str_ \o <<t[m]>>
            ELSE t \o <<",">> \o fillers_str_

rhythm_utils_insert_fillers_safely(translated_text, fillers_str_) ==
    LET t == strip(translated_text)
        m == search_final_punct(t)
        last_comma == rfind(t, ",")
    IN IF fillers_str_ = <<>> THEN translated_text
       ELSE IF m /= 0
            THEN rstrip(SubSeq(t, 1, m - 1)) \o <<",", " ">> \o fillers_str_ \o <<t[m]>>
            ELSE IF last_comma /= -1 /\ last_comma < Len(t) - 1
                 THEN t \o <<",", " ">> \o fillers_str_
                 ELSE t \o <<",", " ">> \o fillers_str_

app_insert_fillers_safely(translated_text, fillers_str_) ==
    LET t == strip(translated_text)
        m == search_final_punct(t)
        last_comma == rfind(t, ",")
    IN IF fillers_str_ = <<>> THEN translated_text
       ELSE IF m /= 0
            THEN rstrip(SubSeq(t, 1, m - 1)) \o <<",", " ">> \o fillers_str_ \o <<t[m]>>
            ELSE IF last_comma /= -1 /\ last_comma < Len(t) - 1
                 THEN t \o <<",", " ">> \o fillers_str_
                 ELSE t \o <<",", " ">> \o fillers_str_

(***************************************************************************)
(* rhythmic_translation_enhancement.  The record holds the 5-tuple the     *)
(* call returns, the local fillers_str, and the exception when the call    *)
(* ends in one (the locals then keep what was computed before it).         *)
(***************************************************************************)
\* the last line but one of the function with the whitespace runs left alone
normalise_trim_only(enhanced_) == strip(enhanced_)

\* enhanced = re.sub(r"\s+", " ", enhanced).strip()
rhythm_utils_normalise(enhanced_) == strip(re_sub_spaces(enhanced_, FALSE))

app_normalise(enhanced_) == strip(re_sub_spaces(enhanced_, FALSE))

EnhancementRaised(exc, orig_syll, before) ==
    [exc |-> exc, fillers_str |-> <<>>, enhanced |-> <<>>,
     orig_syllables |-> orig_syll, trans_syll_before |-> before,
     trans_syll_after |-> 0, diff |-> orig_syll - before]

rhythm_utils_rhythmic_translation_enhancement(original_, translated_, max_fillers_) ==
    LET orig_syll == rhythm_utils_count_syllables(original_, EN)
        before == rhythm_utils_count_syllables(translated_, XX)
        d == orig_syll - before
        fillers == build_fillers(d, max_fillers_, translated_ \o original_)
        inserted == rhythm_utils_insert_fillers_safely(translated_, fillers.value)
    IN IF d <= 0
       THEN [exc |-> "", fillers_str |-> <<>>,
             enhanced |-> rhythm_utils_normalise(strip(translated_)),
             orig_syllables |-> orig_syll, trans_syll_before |-> before,
             trans_syll_after |-> before, diff |-> d]
       ELSE IF fillers.exc /= ""
            THEN EnhancementRaised(fillers.exc, orig_syll, before)
            ELSE [exc |-> "", fillers_str |-> fillers.value,
                  enhanced |-> rhythm_utils_normalise(inserted),
                  orig_syllables |-> orig_syll, trans_syll_before |-> before,
                  trans_syll_after |-> rhythm_utils_count_syllables(inserted, XX),
                  diff |-> d]

app_rhythmic_translation_enhancement(original_, translated_, max_fillers_) ==
    LET orig_syll == app_count_syllables_general(original_, EN)
        before == app_count_syllables_heuristic(translated_)
        d == orig_syll - before
        fillers == _build_fillers(d, max_fillers_,
                                  IF translated_ /= <<>>
                                  THEN translated_ \o original_ ELSE original_)
        inserted == app_insert_fillers_safely(translated_, fillers.value)
    IN IF d <= 0
       THEN [exc |-> "", fillers_str |-> <<>>,
             enhanced |-> app_normalise(strip(translated_)),
             orig_syllables |-> orig_syll, trans_syll_before |-> before,
             trans_syll_after |-> before, diff |-> d]
       ELSE IF fillers.exc /= ""
            THEN EnhancementRaised(fillers.exc, orig_syll, before)
            ELSE [exc |-> "", fillers_str |-> fillers.value,
                  enhanced |-> app_normalise(inserted),
                  orig_syllables |-> orig_syll, trans_syll_before |-> before,
                  trans_syll_after |-> app_count_syllables_heuristic(inserted),
                  diff |-> d]

(***************************************************************************)
(* The inputs of the enhancer.                                             *)
(***************************************************************************)
OriginalWords ==
    << <<"I">>, <<"l", "o", "v", "e">>, <<"t", "h", "e">>,
       <<"s", "u", "m", "m", "e", "r">>, <<"b", "r", "e", "e", "z", "e">>,
       <<"a", "n", "d">>, <<"y", "o", "u">>, <<"s", "o">>, <<"m", "u", "c", "h">> >>

OriginalLine(n) == join(<<" ">>, SubSeq(OriginalWords, 1, Min(n, Len(OriginalWords))))

\* "", "I love", "I love the summer breeze", the longest line, and a line
\* whose last word the dictionary does not hold
Originals ==
    {OriginalLine(n) : n \in {0, 2, 5, MaxOrigWords}}
    \cup {OriginalLine(5) \o <<".">>}

TranslatedAlphabet == {"a", "b", " ", ",", "."}

StringsUpTo(alphabet, n) == UNION {[1..m -> alphabet] : m \in 0..n}

AmoLaBrisa == <<"A", "m", "o", " ", "l", "a", " ", "b", "r", "i", "s", "a">>

Translateds ==
    StringsUpTo(TranslatedAlphabet, MaxLen)
    \cup {AmoLaBrisa, AmoLaBrisa \o <<"!">>, AmoLaBrisa \o <<"?", " ">>,
          <<"T", "e", ",", " ", "a", "m", "o">>,
          <<"l", "a", " ", " ", "l", "a", ".", " ">>,
          <<"a", ",", " ", "b", " ", "a", "?">>,
          <<"\t", "l", "a", "\n", "\"", "l", "a", "\"", " ", " ", "a">>,
          <<"7">>, <<"b", " ", "7">>}

MaxFillersChoices == {-1, 0, 3, MaxFillers}

Entropies == {1, 2}

NoSeq == <<>>

InitEnhancer ==
    /\ original \in Originals
    /\ translated \in Translateds
    /\ max_fillers \in MaxFillersChoices
    /\ translations = <<>>
    /\ entropy \in Entropies
    /\ pc = "init"
    /\ calls = 0
    /\ fillers_str = NoSeq /\ enhanced = NoSeq
    /\ orig_syllables = 0 /\ trans_syll_before = 0 /\ trans_syll_after = 0
    /\ diff = 0 /\ raised = ""
    /\ assembled = NoSeq /\ blended = NoSeq
    /\ MainNotRun

Return(r) ==
    /\ calls' = Min(calls + 1, MaxCalls)
    /\ fillers_str' = r.fillers_str
    /\ enhanced' = r.enhanced
    /\ orig_syllables' = r.orig_syllables
    /\ trans_syll_before' = r.trans_syll_before
    /\ trans_syll_after' = r.trans_syll_after
    /\ diff' = r.diff
    /\ raised' = r.exc

\* a call of rhythm_utils.rhythmic_translation_enhancement
rhythm_utils_enhance ==
    /\ pc' = "rhythm_utils.rhythmic_translation_enhancement"
    /\ Return(rhythm_utils_rhythmic_translation_enhancement(original, translated, max_fillers))
    /\ UNCHANGED <<original, translated, max_fillers, translations, entropy, blenderVars,
                   mainVars>>

\* a call of app.rhythmic_translation_enhancement
app_enhance ==
    /\ pc' = "app.rhythmic_translation_enhancement"
    /\ Return(app_rhythmic_translation_enhancement(original, translated, max_fillers))
    /\ UNCHANGED <<original, translated, max_fillers, translations, entropy, blenderVars,
                   mainVars>>

\* `import random` in a new interpreter: the module-level generator is seeded
\* from the operating system, so its state differs from run to run
import_random ==
    /\ entropy' \in Entropies \ {entropy}
    /\ UNCHANGED <<original, translated, max_fillers, translations, pc, calls, raised,
                   enhancerVars, blenderVars, mainVars>>

NextEnhancer == rhythm_utils_enhance \/ app_enhance \/ import_random

SpecEnhancer == InitEnhancer /\ [][NextEnhancer]_vars

(***************************************************************************)
(* The blender.  Each function is a record of its local token list         *)
(* (assembled) and the string it returns (blended).                        *)
(***************************************************************************)
SP == <<" ">>

Blend(tokens, text) == [assembled |-> tokens, blended |-> text]

\* a[:n] and a[n:] of a Python list, for 0 <= n
take(a, n) == SubSeq(a, 1, Min(n, Len(a)))
drop(a, n) == SubSeq(a, Min(n, Len(a)) + 1, Len(a))

ceil_half(n) == (n + 1) \div 2
floor_half(n) == n \div 2

MaxOf(ns) == IF ns = {} THEN 0 ELSE CHOOSE n \in ns : \A m \in ns : m <= n

RECURSIVE dedupe_loop(_, _)
\* for w in assembled: if not out or w.lower() != out[-1].lower(): out.append(w)
dedupe_loop(ws, out) ==
    IF ws = <<>> THEN out
    ELSE dedupe_loop(Tail(ws),
            IF out = <<>> \/ lower(Head(ws)) /= lower(out[Len(out)])
            THEN Append(out, Head(ws)) ELSE out)

RECURSIVE app_interleave_loop(_, _, _, _, _)
\* the two nested loops of app.interleave_words, i over 0..max_len-1 and
\* n over the token lists
app_interleave_loop(tokenized, max_len, i, n, blended_tokens) ==
    IF i >= max_len THEN blended_tokens
    ELSE IF n > Len(tokenized)
         THEN app_interleave_loop(tokenized, max_len, i + 1, 1, blended_tokens)
         ELSE LET tok_list == tokenized[n]
              IN IF i < Len(tok_list)
                 THEN LET tok == tok_list[i + 1]
                      IN IF /\ blended_tokens /= <<>>
                            /\ lower(tok) = lower(blended_tokens[Len(blended_tokens)])
                         THEN app_interleave_loop(tokenized, max_len, i, n + 1,
                                                  blended_tokens)
                         ELSE app_interleave_loop(tokenized, max_len, i, n + 1,
                                                  Append(blended_tokens, tok))
                 ELSE app_interleave_loop(tokenized, max_len, i, n + 1, blended_tokens)

app_interleave_words(original_, translations_by_lang) ==
    LET tokenized == [n \in 1..Len(translations_by_lang) |->
                        split(translations_by_lang[n])]
        max_len == MaxOf({Len(tokenized[n]) : n \in 1..Len(tokenized)})
        blended_tokens == app_interleave_loop(tokenized, max_len, 0, 1, <<>>)
    IN Blend(blended_tokens, join(SP, blended_tokens))

RECURSIVE blend_utils_interleave_loop(_, _, _, _, _)
blend_utils_interleave_loop(tokenized, max_len, i, n, blended_tokens) ==
    IF i >= max_len THEN blended_tokens
    ELSE IF n > Len(tokenized)
         THEN blend_utils_interleave_loop(tokenized, max_len, i + 1, 1, blended_tokens)
         ELSE IF i < Len(tokenized[n])
              THEN blend_utils_interleave_loop(tokenized, max_len, i, n + 1,
                        Append(blended_tokens, tokenized[n][i + 1]))
              ELSE blend_utils_interleave_loop(tokenized, max_len, i, n + 1,
                        blended_tokens)

\* an interleaving that stops when the shortest translation is exhausted
interleave_words_stopping_at_shortest(original_, translations_by_lang) ==
    LET tokenized == [n \in 1..Len(translations_by_lang) |->
                        split(translations_by_lang[n])]
        lens == {Len(tokenized[n]) : n \in 1..Len(tokenized)}
        min_len == IF lens = {} THEN 0 ELSE CHOOSE n \in lens : \A m \in lens : n <= m
        blended_tokens == blend_utils_interleave_loop(tokenized, min_len, 0, 1, <<>>)
    IN Blend(blended_tokens, join(SP, blended_tokens))

blend_utils_interleave_words(original_, translations_by_lang) ==
    LET tokenized == [n \in 1..Len(translations_by_lang) |->
                        split(translations_by_lang[n])]
        max_len == MaxOf({Len(tokenized[n]) : n \in 1..Len(tokenized)})
        blended_tokens == blend_utils_interleave_loop(tokenized, max_len, 0, 1, <<>>)
    IN Blend(blended_tokens, join(SP, blended_tokens))

RECURSIVE slices_loop_without_fallback(_, _, _)
\* the loop over the slices with an empty slice left empty
slices_loop_without_fallback(segments, idx, assembled_) ==
    IF idx >= Len(segments) THEN assembled_
    ELSE LET words == segments[idx + 1]
             n == Len(words)
             start == (idx * n) \div Len(segments)
             end == ((idx + 1) * n) \div Len(segments)
         IN slices_loop_without_fallback(segments, idx + 1,
                assembled_ \o SubSeq(words, start + 1, end))

RECURSIVE slices_loop(_, _, _)
\* for idx, words in enumerate(segments): the slice [start, end) of words, or
\* words[:max(1, min(3, n))] when the slice is empty.  idx is 0-based
slices_loop(segments, idx, assembled_) ==
    IF idx >= Len(segments) THEN assembled_
    ELSE LET words == segments[idx + 1]
             n == Len(words)
             start == (idx * n) \div Len(segments)
             end == ((idx + 1) * n) \div Len(segments)
         IN slices_loop(segments, idx + 1,
                assembled_ \o (IF start < end
                               THEN SubSeq(words, start + 1, end)
                               ELSE take(words, Max(1, Min(3, n)))))

\* a phrase swap that takes the first floor(len(a)/2) tokens of a
phrase_swap_floor_half_of_a(original_, translations_by_lang) ==
    LET segments == [n \in 1..Len(translations_by_lang) |->
                        split(translations_by_lang[n])]
    IN IF Len(segments) = 1
       THEN Blend(<<>>, translations_by_lang[1])
       ELSE IF Len(segments) = 2
            THEN LET a == segments[1]
                     b == segments[2]
                     assembled_ == take(a, floor_half(Len(a))) \o drop(b, floor_half(Len(b)))
                 IN Blend(assembled_, join(SP, dedupe_loop(assembled_, <<>>)))
            ELSE LET assembled_ == slices_loop(segments, 0, <<>>)
                 IN Blend(assembled_, join(SP, dedupe_loop(assembled_, <<>>)))

\* a phrase swap with no case for a single translation
phrase_swap_without_single_case(original_, translations_by_lang) ==
    LET segments == [n \in 1..Len(translations_by_lang) |->
                        split(translations_by_lang[n])]
    IN IF Len(segments) = 0
       THEN Blend(<<>>, <<>>)
       ELSE IF Len(segments) = 2
            THEN LET a == segments[1]
                     b == segments[2]
                     assembled_ == take(a, ceil_half(Len(a)))
                                   \o drop(b, floor_half(Len(b)))
                 IN Blend(assembled_, join(SP, assembled_))
            ELSE LET assembled_ == slices_loop(segments, 0, <<>>)
                 IN Blend(assembled_, join(SP, assembled_))

app_phrase_swap(original_, translations_by_lang) ==
    LET segments == [n \in 1..Len(translations_by_lang) |->
                        split(translations_by_lang[n])]
    IN IF Len(segments) = 1
       THEN Blend(<<>>, translations_by_lang[1])
       ELSE IF Len(segments) = 2
            THEN LET a == segments[1]
                     b == segments[2]
                     assembled_ == take(a, ceil_half(Len(a))) \o drop(b, floor_half(Len(b)))
                 IN Blend(assembled_, join(SP, dedupe_loop(assembled_, <<>>)))
            ELSE LET assembled_ == slices_loop(segments, 0, <<>>)
                 IN Blend(assembled_, join(SP, dedupe_loop(assembled_, <<>>)))

blend_utils_phrase_swap(original_, translations_by_lang) ==
    LET segments == [n \in 1..Len(translations_by_lang) |->
                        split(translations_by_lang[n])]
    IN IF Len(segments) = 0
       THEN Blend(<<>>, <<>>)
       ELSE IF Len(segments) = 1
            THEN Blend(<<>>, translations_by_lang[1])
            ELSE IF Len(segments) = 2
                 THEN LET a == segments[1]
                          b == segments[2]
                          assembled_ == take(a, ceil_half(Len(a)))
                                        \o drop(b, floor_half(Len(b)))
                      IN Blend(assembled_, join(SP, assembled_))
                 ELSE LET assembled_ == slices_loop(segments, 0, <<>>)
                      IN Blend(assembled_, join(SP, assembled_))

RECURSIVE app_last_word_loop(_, _, _)
\* for t in translations_by_lang: the first one with tokens decides
app_last_word_loop(original_, orig_words, ts) ==
    IF ts = <<>> THEN Blend(<<>>, original_)
    ELSE LET tw == split(strip(Head(ts)))
             last == tw[Len(tw)]
             new_last == IF lower(last) = lower(orig_words[Len(orig_words)])
                            /\ Len(tw) > 1
                         THEN tw[Len(tw) - 1] ELSE last
             tokens == SubSeq(orig_words, 1, Len(orig_words) - 1) \o <<new_last>>
         IN IF tw /= <<>> THEN Blend(tokens, join(SP, tokens))
            ELSE app_last_word_loop(original_, orig_words, Tail(ts))

app_last_word_swap(original_, translations_by_lang) ==
    LET orig_words == split(strip(original_))
    IN IF orig_words = <<>> THEN Blend(<<>>, original_)
       ELSE app_last_word_loop(original_, orig_words, translations_by_lang)

RECURSIVE blend_utils_last_word_loop(_, _, _)
blend_utils_last_word_loop(original_, orig_words, ts) ==
    IF ts = <<>> THEN Blend(<<>>, original_)
    ELSE LET tw == split(strip(Head(ts)))
             tokens == SubSeq(orig_words, 1, Len(orig_words) - 1) \o <<tw[Len(tw)]>>
         IN IF tw /= <<>> THEN Blend(tokens, join(SP, tokens))
            ELSE blend_utils_last_word_loop(original_, orig_words, Tail(ts))

blend_utils_last_word_swap(original_, translations_by_lang) ==
    LET orig_words == split(strip(original_))
    IN IF orig_words = <<>> THEN Blend(<<>>, original_)
       ELSE blend_utils_last_word_loop(original_, orig_words, translations_by_lang)

(***************************************************************************)
(* The inputs of the blender: every list of up to two lines over three     *)
(* tokens, lists of three to five lines of every combination of lengths,   *)
(* and the lines of the documented examples.                               *)
(***************************************************************************)
BlendTokens == {<<"a">>, <<"A">>, <<"b">>}

TokenLists(n) == UNION {[1..m -> BlendTokens] : m \in 0..n}

\* a token list as a line: single spaces, or leading, doubled and trailing
\* whitespace
Render(tokens, style) ==
    IF style = "tight" THEN join(SP, tokens)
    ELSE <<" ">> \o join(<<" ", " ">>, tokens) \o <<"\t">>

Styles == {"tight", "loose"}

PairOriginals == {<<>>, <<<<"a">>>>, <<<<"b">>, <<"A">>>>}

LowWords ==
    << <<"l", "a">>, <<"t", "e">>, <<"l", "i">>, <<"b", "i">>, <<"t", "a">>,
       <<"a", "l">> >>
CapWords ==
    << <<"L", "a">>, <<"T", "e">>, <<"L", "i">>, <<"B", "i">>, <<"T", "a">>,
       <<"A", "l">> >>
Letters == <<"a", "b", "c", "d", "e", "f", "g">>

\* token j of line i: "distinct" gives every place its own token, "columns"
\* gives the lines the same words, capitalised in every other line
Word(pattern, i, j) ==
    IF pattern = "distinct" THEN <<Letters[i], Letters[j]>>
    ELSE IF i % 2 = 1 THEN CapWords[j] ELSE LowWords[j]

Patterns == {"distinct", "columns"}

ManyCounts == {3, 4, 5}

ManyLine(pattern, i, n) == join(SP, [j \in 1..n |-> Word(pattern, i, j)])

ILoveYou == <<"I", " ", "l", "o", "v", "e", " ", "y", "o", "u">>
TeAmo == <<"T", "e", " ", "a", "m", "o">>
IchLiebeDich ==
    <<"I", "c", "h", " ", "l", "i", "e", "b", "e", " ", "d", "i", "c", "h">>

ExampleInputs ==
    {[original |-> ILoveYou, translations |-> <<TeAmo, IchLiebeDich>>],
     [original |-> ILoveYou, translations |-> <<TeAmo>>],
     [original |-> <<"I", " ", "l", "o", "v", "e", " ", "A", "m", "o">>,
      translations |-> <<TeAmo>>],
     [original |-> ILoveYou, translations |-> << <<"l", "a", " ", "l", "a">> >>],
     [original |-> ILoveYou, translations |-> << <<" ", "\n">>, <<"a", "m", "o">> >>]}

BlenderRest ==
    /\ translated = <<>>
    /\ max_fillers = 3
    /\ entropy = 1
    /\ pc = "init"
    /\ calls = 0
    /\ fillers_str = NoSeq /\ enhanced = NoSeq
    /\ orig_syllables = 0 /\ trans_syll_before = 0 /\ trans_syll_after = 0
    /\ diff = 0 /\ raised = ""
    /\ assembled = NoSeq /\ blended = NoSeq
    /\ MainNotRun

\* no line, one line or two lines
InitPairs ==
    /\ \E o \in PairOriginals, st \in Styles :
          /\ original = Render(o, st)
          /\ \/ translations = <<>>
             \/ \E x \in TokenLists(MaxPairTokens) :
                   translations = <<Render(x, st)>>
             \/ \E x, y \in TokenLists(MaxPairTokens) :
                   translations = <<Render(x, st), Render(y, st)>>
    /\ BlenderRest

\* three lines or more
InitMany ==
    /\ original = <<"b", " ", "L", "a">>
    /\ \E n \in ManyCounts, pattern \in Patterns :
          \E lens \in [1..n -> 0..MaxSliceTokens] :
             translations = [i \in 1..n |-> ManyLine(pattern, i, lens[i])]
    /\ BlenderRest

InitExamples ==
    /\ \E inp \in ExampleInputs :
          /\ original = inp.original
          /\ translations = inp.translations
    /\ BlenderRest

InitBlender == InitPairs \/ InitMany \/ InitExamples

BlendReturn(name, r) ==
    /\ pc' = name
    /\ assembled' = r.assembled
    /\ blended' = r.blended
    /\ UNCHANGED <<original, translated, max_fillers, translations, entropy,
                   calls, raised, enhancerVars, mainVars>>

app_interleave ==
    BlendReturn("app.interleave_words", app_interleave_words(original, translations))

blend_utils_interleave ==
    BlendReturn("blend_utils.interleave_words",
                blend_utils_interleave_words(original, translations))

app_phrase ==
    BlendReturn("app.phrase_swap", app_phrase_swap(original, translations))

blend_utils_phrase ==
    BlendReturn("blend_utils.phrase_swap", blend_utils_phrase_swap(original, translations))

app_last_word ==
    BlendReturn("app.last_word_swap", app_last_word_swap(original, translations))

blend_utils_last_word ==
    BlendReturn("blend_utils.last_word_swap",
                blend_utils_last_word_swap(original, translations))

NextBlender ==
    \/ app_interleave \/ blend_utils_interleave
    \/ app_phrase \/ blend_utils_phrase
    \/ app_last_word \/ blend_utils_last_word

SpecBlender == InitBlender /\ [][NextBlender]_vars

(***************************************************************************)
(* main of app.py: one future per selected language runs                   *)
(* translate_and_enhance in a thread pool, the main thread collects the    *)
(* futures as they complete and blends the enhanced translations.          *)
(* A thread is at a position between two accesses to st.session_state.     *)
(***************************************************************************)
MaxSelected == 2

\* three of the eleven entries of available_languages
available_languages ==
    ("Spanish" :> "es") @@ ("French" :> "fr") @@ ("German" :> "de")

Modes == {"Interleave Words", "Phrase Swap", "Last-Word Swap"}

\* result.get("translatedText", "") of the provider, by target language
translatedText ==
    ("es" :> TeAmo) @@ ("de" :> IchLiebeDich)
    @@ ("fr" :> <<"l", "a", " ", "l", "a">>)

\* str(e) of the exception a failing request raises
RequestError == <<"4", "0", "3">>

\* f"Error during translation: {e}" without {e}
ErrorMarker ==
    <<"E", "r", "r", "o", "r", " ", "d", "u", "r", "i", "n", "g", " ", "t",
      "r", "a", "n", "s", "l", "a", "t", "i", "o", "n", ":", " ">>

\* the string returned without a client, up to the end of its first sentence;
\* "#" stands for its non-ASCII sign
ClientNotInitialized ==
    <<"#", " ", "T", "r", "a", "n", "s", "l", "a", "t", "i", "o", "n", " ",
      "c", "l", "i", "e", "n", "t", " ", "n", "o", "t", " ", "i", "n", "i",
      "t", "i", "a", "l", "i", "z", "e", "d", ".">>

\* app.clean_text; no line of the model holds a typographic quote or dash
app_clean_text(text) == strip(text)

\* translate_utils.translate_text: it logs through logging and returns
translate_utils_translate_text(target_lang, client, request_fails) ==
    IF client = "None" THEN ClientNotInitialized
    ELSE IF request_fails THEN ErrorMarker \o RequestError
         ELSE translatedText[target_lang]

RECURSIVE remove_consecutive_loop(_, _)
\* for w in words[1:]: if w != out[-1]: out.append(w)
remove_consecutive_loop(ws, out) ==
    IF ws = <<>> THEN out
    ELSE remove_consecutive_loop(Tail(ws),
            IF Head(ws) /= out[Len(out)] THEN Append(out, Head(ws)) ELSE out)

app_remove_consecutive_duplicates(text) ==
    LET words == split(text)
    IN IF words = <<>> THEN <<>>
       ELSE join(SP, remove_consecutive_loop(Tail(words), <<Head(words)>>))

\* d[k] = v
dict_set(d, k, v) ==
    [order |-> IF k \in DOMAIN d.value THEN d.order ELSE Append(d.order, k),
     value |-> (k :> v) @@ d.value]

\* the tuple translate_and_enhance returns for trans, or the exception it ends in
translate_and_enhance_result(lang_name, trans) ==
    LET r == app_rhythmic_translation_enhancement(lyric_line_clean, trans, 3)
    IN [exc |-> r.exc, lang_name |-> lang_name, code |-> available_languages[lang_name],
        trans |-> trans, enhanced |-> r.enhanced, orig_syll |-> r.orig_syllables,
        trans_before |-> r.trans_syll_before, trans_after |-> r.trans_syll_after,
        diff |-> r.diff]

Submitted == [pc |-> "submitted", log_read |-> <<>>, result |-> <<>>]

\* the messages of the log, by the f-string that builds them
TranslationErrorMsg(code) == <<"Translation error for", code>>
TranslatedMsg(lang_name) == <<"Translated:", lang_name>>
FutureFailedMsg(exc) == <<"Translation future failed:", exc>>

SeqsNoRepeat(S, n) ==
    {q \in UNION {[1..k -> S] : k \in 0..n} :
        \A i, j \in 1..Len(q) : i /= j => q[i] /= q[j]}

\* an empty text area, and " I love you"
LyricLines == {<<>>, <<" ">> \o ILoveYou}

InitMain ==
    /\ lyric_line \in LyricLines
    /\ selected \in SeqsNoRepeat(DOMAIN available_languages, MaxSelected)
    /\ mode \in Modes
    /\ translate_client \in {"client", "None"}
    /\ failing \in IF translate_client = "None"
                   THEN {{}}         \* no request is made, so none fails
                   ELSE SUBSET {selected[i] : i \in 1..Len(selected)}
    /\ script_run_ctx \in {"attached", "missing"}
    /\ lyric_line_clean = <<>>
    /\ workers = <<>> /\ pending = {}
    /\ melosphere_logs = <<>>
    /\ fut = "" /\ main_log_read = <<>>
    /\ translations_clean = EmptyDict /\ translations_enhanced = EmptyDict
    /\ overall_stats = EmptyDict /\ translations_list_for_blend = <<>>
    /\ pc = "main"
    /\ original = <<>> /\ translated = <<>> /\ max_fillers = 3
    /\ translations = <<>> /\ entropy = 1 /\ calls = 0
    /\ fillers_str = NoSeq /\ enhanced = NoSeq
    /\ orig_syllables = 0 /\ trans_syll_before = 0 /\ trans_syll_after = 0
    /\ diff = 0 /\ raised = ""
    /\ assembled = NoSeq /\ blended = NoSeq

mainInputs == <<lyric_line, selected, mode, translate_client, failing, script_run_ctx>>

functionVars == <<original, translated, max_fillers, translations, entropy, calls,
                  enhancerVars, assembled>>

\* main up to executor.submit: the early return, or one future per language
main_submit ==
    /\ pc = "main"
    /\ IF lyric_line = <<>> \/ selected = <<>>
       THEN /\ pc' = "main.return"
            /\ UNCHANGED <<lyric_line_clean, workers, pending>>
       ELSE /\ lyric_line_clean' = app_clean_text(lyric_line)
            /\ workers' = [l \in {selected[i] : i \in 1..Len(selected)} |-> Submitted]
            /\ pending' = {selected[i] : i \in 1..Len(selected)}
            /\ pc' = "main.as_completed"
    /\ UNCHANGED <<mainInputs, functionVars, raised, blended, melosphere_logs, fut,
                   main_log_read, translations_clean, translations_enhanced,
                   overall_stats, translations_list_for_blend>>

workerFrame == <<mainInputs, functionVars, raised, blended, pc, lyric_line_clean,
                 pending, fut, main_log_read, translations_clean,
                 translations_enhanced, overall_stats, translations_list_for_blend>>

\* a pool thread runs translate_text up to its return or to its except clause
w_translate(l) ==
    /\ l \in DOMAIN workers
    /\ workers[l].pc = "submitted"
    /\ IF translate_client = "None"
       THEN workers' = [workers EXCEPT ![l] =
                [pc |-> "done", log_read |-> <<>>,
                 result |-> translate_and_enhance_result(l, ClientNotInitialized)]]
       ELSE IF l \in failing
            THEN workers' = [workers EXCEPT ![l].pc = "log"]
            ELSE workers' = [workers EXCEPT ![l] =
                [pc |-> "done", log_read |-> <<>>,
                 result |-> translate_and_enhance_result(l,
                                translatedText[available_languages[l]])]]
    /\ UNCHANGED <<workerFrame, melosphere_logs>>

\* log in the except clause, first half: st.session_state["melosphere_logs"] is
\* read.  Streamlit resolves st.session_state through the script-run context of
\* the calling thread; a pool thread without one is given an empty state, and
\* the read raises KeyError out of translate_text and of the future
w_log_read(l) ==
    /\ l \in DOMAIN workers
    /\ workers[l].pc = "log"
    /\ IF script_run_ctx = "missing"
       THEN workers' = [workers EXCEPT ![l] =
                [pc |-> "done", log_read |-> <<>>,
                 result |-> [exc |-> "KeyError", lang_name |-> l]]]
       ELSE workers' = [workers EXCEPT ![l] =
                [pc |-> "log.write", log_read |-> melosphere_logs, result |-> <<>>]]
    /\ UNCHANGED <<workerFrame, melosphere_logs>>

\* log, second half: the sum is stored; translate_text returns the marker and
\* translate_and_enhance enhances it
w_log_write(l) ==
    /\ l \in DOMAIN workers
    /\ workers[l].pc = "log.write"
    /\ melosphere_logs' = Append(workers[l].log_read,
                                 TranslationErrorMsg(available_languages[l]))
    /\ workers' = [workers EXCEPT ![l] =
            [pc |-> "done", log_read |-> <<>>,
             result |-> translate_and_enhance_result(l, ErrorMarker \o RequestError)]]
    /\ UNCHANGED workerFrame

\* as_completed yields a finished future: the body of the try, or the except
\* clause, up to the read of the log
c_result(l) ==
    /\ pc = "main.as_completed"
    /\ l \in pending
    /\ workers[l].pc = "done"
    /\ LET r == workers[l].result
       IN IF r.exc = ""
          THEN /\ translations_clean' = dict_set(translations_clean, r.lang_name, r.trans)
               /\ translations_enhanced' =
                    dict_set(translations_enhanced, r.lang_name, r.enhanced)
               /\ overall_stats' = dict_set(overall_stats, r.lang_name,
                    [orig_syll |-> r.orig_syll, trans_before |-> r.trans_before,
                     trans_after |-> r.trans_after, diff |-> r.diff, code |-> r.code])
          ELSE UNCHANGED <<translations_clean, translations_enhanced, overall_stats>>
    /\ fut' = l
    /\ pending' = pending \ {l}
    /\ main_log_read' = melosphere_logs
    /\ pc' = "main.log"
    /\ UNCHANGED <<mainInputs, functionVars, raised, blended, lyric_line_clean, workers,
                   melosphere_logs, translations_list_for_blend>>

\* log in the main thread, second half
c_log_write ==
    /\ pc = "main.log"
    /\ melosphere_logs' = Append(main_log_read,
            IF workers[fut].result.exc = ""
            THEN TranslatedMsg(fut)
            ELSE FutureFailedMsg(workers[fut].result.exc))
    /\ fut' = ""
    /\ pc' = IF pending = {} THEN "main.blend" ELSE "main.as_completed"
    /\ UNCHANGED <<mainInputs, functionVars, raised, blended, lyric_line_clean, workers,
                   pending, main_log_read, translations_clean, translations_enhanced,
                   overall_stats, translations_list_for_blend>>

\* list(translations_enhanced.values()): the enhanced translations in the order
\* of their insertion, which is the order of completion
list_in_completion_order(selected_, d) ==
    [i \in 1..Len(d.order) |-> d.value[d.order[i]]]

\* [translations_enhanced[name] for name in selected]
list_for_blend(selected_, d) == [i \in 1..Len(selected_) |-> d.value[selected_[i]]]

\* the dispatch on mode
blend_by_mode(mode_, original_, translations_by_lang) ==
    IF mode_ = "Interleave Words"
    THEN app_interleave_words(original_, translations_by_lang).blended
    ELSE IF mode_ = "Phrase Swap"
         THEN app_phrase_swap(original_, translations_by_lang).blended
         ELSE app_last_word_swap(original_, translations_by_lang).blended

\* the list for the blender, the blend and remove_consecutive_duplicates; the
\* subscript raises KeyError for a language whose future failed
c_blend ==
    /\ pc = "main.blend"
    /\ IF \E i \in 1..Len(selected) : selected[i] \notin DOMAIN translations_enhanced.value
       THEN /\ raised' = "KeyError"
            /\ pc' = "main.raised"
            /\ UNCHANGED <<translations_list_for_blend, blended>>
       ELSE /\ translations_list_for_blend' = list_for_blend(selected, translations_enhanced)
            /\ blended' = app_remove_consecutive_duplicates(
                    blend_by_mode(mode, lyric_line_clean, translations_list_for_blend'))
            /\ pc' = "main.done"
            /\ UNCHANGED raised
    /\ UNCHANGED <<mainInputs, functionVars, lyric_line_clean, workers, pending,
                   melosphere_logs, fut, main_log_read, translations_clean,
                   translations_enhanced, overall_stats>>

NextMain ==
    \/ main_submit
    \/ \E l \in DOMAIN available_languages : w_translate(l)
    \/ \E l \in DOMAIN available_languages : w_log_read(l)
    \/ \E l \in DOMAIN available_languages : w_log_write(l)
    \/ \E l \in DOMAIN available_languages : c_result(l)
    \/ c_log_write
    \/ c_blend

SpecMain == InitMain /\ [][NextMain]_vars


(***************************************************************************)
(* Properties of the enhancer.                                             *)
(***************************************************************************)
EnhanceReturned ==
    pc \in {"rhythm_utils.rhythmic_translation_enhancement",
            "app.rhythmic_translation_enhancement"}

EnhancerResult ==
    <<enhanced, orig_syllables, trans_syll_before, trans_syll_after, diff,
      fillers_str, raised>>

\* the six filler words
FillerVocabulary ==
    {<<"o", "h">>, <<"l", "a">>, <<"y", "e", "a", "h">>,
     <<"n", "a">>, <<"h", "e", "y">>, <<"m", "m", "m">>}

IsSuffix(x, s) == Len(x) <= Len(s) /\ SubSeq(s, Len(s) - Len(x) + 1, Len(s)) = x

Occurs(x, s) == \E i \in 0..(Len(s) - Len(x)) : SubSeq(s, i + 1, i + Len(x)) = x

\* a string with its ends trimmed and its whitespace runs collapsed to one space
WhitespaceNormalised(s) == join(<<" ">>, split(s))

\* C1: a call of the enhancer that follows a call of the same function on the
\* same arguments returns the same 5-tuple and chose the same fillers in the
\* same order, whatever has happened to the module-level generator in between.
C1_SameArgumentsSameResult ==
    [][(EnhanceReturned /\ pc' = pc) => EnhancerResult' = EnhancerResult]_vars

\* a second call has returned, having chosen two fillers or more
C1_Witness ==
    /\ EnhanceReturned /\ calls >= 2 /\ raised = ""
    /\ Len(split(fillers_str)) >= 2

\* the filler string holds exactly k tokens, each one of the six filler words,
\* pairwise distinct when k <= 6, joined by single spaces
SelectedFillers(k) ==
    LET tokens == split(fillers_str)
    IN /\ Len(tokens) = k
       /\ \A i \in 1..Len(tokens) : tokens[i] \in FillerVocabulary
       /\ k <= Cardinality(FillerVocabulary) =>
            \A i, j \in 1..Len(tokens) : i /= j => tokens[i] /= tokens[j]
       /\ fillers_str = join(<<" ">>, tokens)

\* C2: with a positive deficit the call selects exactly
\* k = min(max_fillers, deficit) filler tokens, each one of the six filler
\* words, pairwise distinct when k <= 6, joined by single spaces.
C2_FillerSelection ==
    (EnhanceReturned /\ diff > 0) =>
        raised = "" /\ SelectedFillers(Min(max_fillers, diff))

\* what the code does keep of C2: the selection is as stated whenever
\* max_fillers >= 0
C2_NonNegativeMaxFillers ==
    (EnhanceReturned /\ diff > 0 /\ max_fillers >= 0) =>
        raised = "" /\ SelectedFillers(Min(max_fillers, diff))

\* with a positive deficit and a negative max_fillers the call ends in
\* ValueError
C2_NegativeMaxFillersRaises ==
    (EnhanceReturned /\ diff > 0 /\ max_fillers < 0) => raised = "ValueError"

\* more tokens are asked for than the vocabulary holds, and some token repeats
C2_MoreThanVocabulary ==
    /\ EnhanceReturned /\ diff > 6 /\ max_fillers > 6
    /\ Len(split(fillers_str)) = Min(max_fillers, diff)
    /\ \E i, j \in 1..Len(split(fillers_str)) :
          i /= j /\ split(fillers_str)[i] = split(fillers_str)[j]

\* C3: with a deficit <= 0 the call returns the translated text with its
\* whitespace normalised and nothing else changed, adds no filler, reports
\* trans_syll_after = trans_syll_before and raises nothing.
C3_NoOp ==
    (EnhanceReturned /\ diff <= 0) =>
        /\ raised = ""
        /\ enhanced = WhitespaceNormalised(translated)
        /\ fillers_str = <<>>
        /\ trans_syll_after = trans_syll_before

\* a translated line with a surplus of syllables, which the call did change
\* (whitespace only)
C3_Witness ==
    /\ EnhanceReturned /\ diff < 0 /\ max_fillers > 0
    /\ enhanced /= translated /\ enhanced /= <<>>
    /\ \E i \in 1..Len(translated) : translated[i] \in Whitespace /\ i > 1 /\ i < Len(translated)
          /\ translated[i + 1] \in Whitespace

\* the three cases of the placement of the fillers in t = strip(translated)
EndsInFinalPunctuation(t) == t /= <<>> /\ t[Len(t)] \in SentenceFinal

HasLastClause(t) ==
    /\ ~EndsInFinalPunctuation(t)
    /\ \E i \in 1..(Len(t) - 1) : t[i] = ","

LastClause(t) == SubSeq(t, rfind(t, ",") + 2, Len(t))

\* C4: the fillers are placed (1) immediately before the final . ! or ? when
\* the text ends in one, (2) otherwise before the last comma-delimited clause
\* when the text has one, (3) otherwise at the end, after a comma.
C4_Placement ==
    (EnhanceReturned /\ raised = "" /\ fillers_str /= <<>>) =>
        LET t == strip(translated)
            clause == WhitespaceNormalised(LastClause(t))
        IN IF EndsInFinalPunctuation(t)
           THEN IsSuffix(fillers_str \o <<t[Len(t)]>>, enhanced)
           ELSE IF HasLastClause(t)
                THEN /\ IsSuffix(clause, enhanced)
                     /\ Occurs(fillers_str,
                               SubSeq(enhanced, 1, Len(enhanced) - Len(clause)))
                ELSE IsSuffix(<<",", " ">> \o fillers_str, enhanced)

\* what the code does in the three cases: in case (2) as in case (3)
C4_CasesOneAndThree ==
    (EnhanceReturned /\ raised = "" /\ fillers_str /= <<>>) =>
        LET t == strip(translated)
        IN IF EndsInFinalPunctuation(t)
           THEN IsSuffix(<<",", " ">> \o fillers_str \o <<t[Len(t)]>>, enhanced)
           ELSE enhanced = WhitespaceNormalised(t \o <<",", " ">> \o fillers_str)

(***************************************************************************)
(* Properties of the blender.                                              *)
(***************************************************************************)
InterleaveReturned == pc \in {"app.interleave_words", "blend_utils.interleave_words"}
PhraseSwapReturned == pc \in {"app.phrase_swap", "blend_utils.phrase_swap"}
LastWordSwapReturned == pc \in {"app.last_word_swap", "blend_utils.last_word_swap"}
BlendReturned == InterleaveReturned \/ PhraseSwapReturned \/ LastWordSwapReturned

\* the token lists of the translations
Tokenized == [n \in 1..Len(translations) |-> split(translations[n])]

SameWord(v, w) == lower(v) = lower(w)

NoAdjacentRepeat(ws) == \A i \in 1..(Len(ws) - 1) : ~SameWord(ws[i], ws[i + 1])

RECURSIVE Collapse(_)
\* ws with every token that repeats the one before it (case-insensitively)
\* left out
Collapse(ws) ==
    IF Len(ws) <= 1 THEN ws
    ELSE IF SameWord(ws[1], ws[2]) THEN Collapse(<<ws[1]>> \o Tail(Tail(ws)))
    ELSE <<ws[1]>> \o Collapse(Tail(ws))

RECURSIVE Flatten(_)
Flatten(seqs) == IF seqs = <<>> THEN <<>> ELSE Head(seqs) \o Flatten(Tail(seqs))

FirstN(ws, k) == [i \in 1..k |-> ws[i]]
LastN(ws, k) == [i \in 1..k |-> ws[Len(ws) - k + i]]

\* the tokens at index i (1-based), in the order of the lists that have one
Column(lists, i) ==
    LET has == SelectSeq([n \in 1..Len(lists) |-> n], LAMBDA n : Len(lists[n]) >= i)
    IN [k \in 1..Len(has) |-> lists[has[k]][i]]

RoundRobin(lists) ==
    Flatten([i \in 1..MaxOf({Len(lists[n]) : n \in 1..Len(lists)}) |-> Column(lists, i)])

\* C5: the output of Interleave and of PhraseSwap never holds two consecutive
\* tokens that are equal case-insensitively, whatever the list of translations.
C5_NoConsecutiveDuplicates ==
    (InterleaveReturned \/ PhraseSwapReturned) => NoAdjacentRepeat(split(blended))

\* what app.py's copy does keep of it: Interleave always, PhraseSwap unless it
\* is given exactly one translation
C5_AppExceptSingle ==
    (pc = "app.interleave_words" \/ (pc = "app.phrase_swap" /\ Len(translations) /= 1))
        => NoAdjacentRepeat(split(blended))

C7_RoundRobin ==
    InterleaveReturned => split(blended) = RoundRobin(Tokenized)

\* C7 as amended: the output of Interleave is the tokens in round-robin order
\* by position, joined by single spaces; app.py's copy leaves out, besides the
\* exhausted translations, every token that equals case-insensitively the
\* token before it in that order.  "I love you", ["Te amo", "Ich liebe dich"]
\* gives "Te Ich amo liebe dich".
C7_RoundRobinAmended ==
    /\ pc = "blend_utils.interleave_words" =>
          /\ assembled = RoundRobin(Tokenized)
          /\ blended = join(SP, RoundRobin(Tokenized))
    /\ pc = "app.interleave_words" =>
          /\ assembled = Collapse(RoundRobin(Tokenized))
          /\ blended = join(SP, Collapse(RoundRobin(Tokenized)))
    /\ (InterleaveReturned /\ translations = <<TeAmo, IchLiebeDich>>) =>
          blended = <<"T", "e", " ", "I", "c", "h", " ", "a", "m", "o", " ",
                      "l", "i", "e", "b", "e", " ", "d", "i", "c", "h">>

\* three translations of different lengths, one of them exhausted before the
\* others, and a token left out by app.py's copy
C7_Witness ==
    /\ pc = "app.interleave_words" /\ Len(translations) >= 3
    /\ \E m, n \in 1..Len(translations) : Len(Tokenized[m]) + 2 <= Len(Tokenized[n])
    /\ Len(assembled) >= 3
    /\ Len(assembled) < Len(RoundRobin(Tokenized))

\* C8: given two translations A and B, PhraseSwap returns the first
\* ceil(len(A)/2) tokens of A followed by the last floor(len(B)/2) tokens of B.
C8_Halves ==
    (PhraseSwapReturned /\ Len(translations) = 2) =>
        LET a == Tokenized[1]
            b == Tokenized[2]
        IN split(blended) = FirstN(a, ceil_half(Len(a))) \o LastN(b, floor_half(Len(b)))

\* C8 as amended: given two translations A and B, PhraseSwap assembles the
\* first ceil(len(A)/2) tokens of A followed by the last ceil(len(B)/2) tokens
\* of B (those from index floor(len(B)/2) on) and returns them joined by single
\* spaces, app.py's copy without the tokens that repeat the one before.
C8_HalvesAmended ==
    (PhraseSwapReturned /\ Len(translations) = 2) =>
        LET a == Tokenized[1]
            b == Tokenized[2]
            halves == FirstN(a, ceil_half(Len(a))) \o LastN(b, ceil_half(Len(b)))
        IN /\ assembled = halves
           /\ pc = "blend_utils.phrase_swap" => blended = join(SP, halves)
           /\ pc = "app.phrase_swap" => blended = join(SP, Collapse(halves))

\* A and B of odd length, B longer than one token
C8_Witness ==
    /\ pc = "blend_utils.phrase_swap" /\ Len(translations) = 2
    /\ Len(Tokenized[1]) = 3 /\ Len(Tokenized[2]) = 3
    /\ Len(split(blended)) = 4

\* the piece of the idx-th translation (0-based) among N
SlicePiece(lists, idx) ==
    LET words == lists[idx + 1]
        n == Len(words)
        start == (idx * n) \div Len(lists)
        end == ((idx + 1) * n) \div Len(lists)
    IN IF start < end THEN [k \in 1..(end - start) |-> words[start + k]]
       ELSE FirstN(words, Min(3, n))

SliceIsEmpty(lists, idx) ==
    (idx * Len(lists[idx + 1])) \div Len(lists)
        >= ((idx + 1) * Len(lists[idx + 1])) \div Len(lists)

\* C9: given N >= 3 translations, PhraseSwap assembles, in list order, one
\* piece per translation: the slice [floor(idx*len/N), floor((idx+1)*len/N)) of
\* the idx-th, or its first min(3, len) tokens when that slice is empty; so
\* every translation that has tokens has one of them in the assembled sequence.
C9_Slices ==
    (PhraseSwapReturned /\ Len(translations) >= 3) =>
        LET lists == Tokenized
        IN /\ assembled = Flatten([n \in 1..Len(lists) |-> SlicePiece(lists, n - 1)])
           /\ \A n \in 1..Len(lists) :
                lists[n] /= <<>> =>
                    \E k \in 1..Len(assembled), j \in 1..Len(lists[n]) :
                        assembled[k] = lists[n][j]
           /\ Len(assembled) >= Cardinality({n \in 1..Len(lists) : lists[n] /= <<>>})

\* a translation of more than three tokens whose slice is empty, beside one
\* whose slice is not
C9_Witness ==
    /\ PhraseSwapReturned /\ Len(translations) >= 3
    /\ \E m, n \in 1..Len(translations) :
          /\ Len(Tokenized[m]) > 3 /\ SliceIsEmpty(Tokenized, m - 1)
          /\ Tokenized[n] /= <<>> /\ ~SliceIsEmpty(Tokenized, n - 1)

FirstWithTokens(lists) == CHOOSE n \in 1..Len(lists) :
    lists[n] /= <<>> /\ \A m \in 1..(n - 1) : lists[m] = <<>>

\* what C10 says LastWordSwap returns
LastWordSwapped ==
    LET os == split(original)
        tw == Tokenized[FirstWithTokens(Tokenized)]
        candidate == tw[Len(tw)]
        new_last == IF SameWord(candidate, os[Len(os)]) /\ Len(tw) > 1
                    THEN tw[Len(tw) - 1] ELSE candidate
    IN FirstN(os, Len(os) - 1) \o <<new_last>>

LastWordSwapApplies ==
    /\ split(original) /= <<>>
    /\ \E n \in 1..Len(translations) : Tokenized[n] /= <<>>

\* C10: on an original that has tokens, LastWordSwap returns the tokens of the
\* original with the last one replaced by the last token of the first
\* translation that has tokens, or by its second-to-last token when the last
\* equals the original's last token case-insensitively and there is more than
\* one.
C10_LastWordSwap ==
    (LastWordSwapReturned /\ LastWordSwapApplies) => split(blended) = LastWordSwapped

\* app.py's copy does that
C10_AppLastWordSwap ==
    (pc = "app.last_word_swap" /\ LastWordSwapApplies) =>
        blended = join(SP, LastWordSwapped)

\* C11: with an empty list of translations every mode returns the empty
\* string, whatever the original line.
C11_EmptyListGivesEmptyString ==
    (BlendReturned /\ translations = <<>>) => blended = <<>>

\* what the code does with an empty list: Interleave and PhraseSwap return
\* the empty string, LastWordSwap returns the original line as it was given
C11_LastWordSwapReturnsOriginal ==
    (BlendReturned /\ translations = <<>>) =>
        IF LastWordSwapReturned THEN blended = original ELSE blended = <<>>

(***************************************************************************)
(* Further properties of the enhancer.                                     *)
(***************************************************************************)
\* C12: the enhancer never raises: for every original, translated and
\* max_fillers (zero and negative included) the call returns its 5-tuple.
C12_NeverRaises == EnhanceReturned => raised = ""

\* the calls that do return: those with a deficit <= 0 or max_fillers >= 0
C12_RaisesOnlyOnNegativeMaxFillers ==
    EnhanceReturned => (raised /= "" <=> (diff > 0 /\ max_fillers < 0))

\* the whitespace-delimited words of the translated line
TranslatedWords == split(translated)

HasLetter(word) == \E i \in 1..Len(word) : lower_char(word[i]) \in AsciiLetters

\* C13: under the generic heuristic a word with no vowel group counts exactly
\* one syllable, never zero, so the estimate of a text is at least the
\* number of its whitespace-delimited words.
C13_WordCountsAtLeastOne ==
    EnhanceReturned =>
        /\ trans_syll_before >= Len(TranslatedWords)
        /\ (Len(TranslatedWords) = 1 /\ vowel_groups(lower(TranslatedWords[1]), FALSE) = 0)
              => trans_syll_before = 1

\* what the code does keep of C13: the estimate is at least the number of
\* words that hold a letter; app.py's copy also counts every word that holds a
\* character other than punctuation, rhythm_utils.py's copy counts no word
\* without a letter
C13_WordsWithLetters ==
    EnhanceReturned =>
        LET lettered == SelectSeq(TranslatedWords, HasLetter)
            marked == SelectSeq(TranslatedWords,
                        LAMBDA w : \E i \in 1..Len(w) : w[i] \notin AppPunctuation)
        IN /\ trans_syll_before >= Len(lettered)
           /\ pc = "app.rhythmic_translation_enhancement"
                => trans_syll_before >= Len(marked)
           /\ (pc = "rhythm_utils.rhythmic_translation_enhancement" /\ lettered = <<>>)
                => trans_syll_before = 0

\* the call of the documented example:
\* enhance("I love the summer breeze", "Amo la brisa", max_fillers=3)
SummerBreezeCall ==
    /\ EnhanceReturned
    /\ original = OriginalLine(5)
    /\ translated = AmoLaBrisa
    /\ max_fillers = 3

\* C16: the call of the example counts the original as 6 syllables and the
\* translation as 4, reports a deficit of 2 and adds exactly 2 filler tokens.
C16_SummerBreezeExample ==
    SummerBreezeCall =>
        /\ raised = ""
        /\ orig_syllables = 6
        /\ trans_syll_before = 4
        /\ diff = 2
        /\ Len(split(fillers_str)) = 2
        /\ Len(split(enhanced)) = Len(split(translated)) + 2

\* C16 as amended: the call of the example counts the original as 6 syllables
\* and the translation as 5 (A-mo la bri-sa), reports a deficit of 1 and adds
\* exactly 1 filler token, after a comma at the end of the translation, which
\* brings the translation to 6 syllables.
C16_SummerBreezeAmended ==
    SummerBreezeCall =>
        /\ raised = ""
        /\ orig_syllables = 6
        /\ trans_syll_before = 5
        /\ diff = 1
        /\ fillers_str \in FillerVocabulary
        /\ enhanced = AmoLaBrisa \o <<",", " ">> \o fillers_str
        /\ trans_syll_after = 6

\* both copies have returned from the call of the example
C16_Witness ==
    /\ SummerBreezeCall
    /\ calls >= 2
    /\ pc = "app.rhythmic_translation_enhancement"
    /\ diff = 1 /\ Len(split(enhanced)) = 4

\* C17: with a positive deficit and max_fillers >= 0 the call returns
\* trans_syll_after = trans_syll_before + min(max_fillers, deficit): every
\* filler counts one syllable and the comma and the moved punctuation none.
\* So trans_syll_after never exceeds orig_syllables, and equals it exactly
\* when the deficit is at most max_fillers.
C17_NeverOvershoots ==
    (EnhanceReturned /\ diff > 0 /\ max_fillers >= 0) =>
        /\ raised = ""
        /\ trans_syll_after = trans_syll_before + Min(max_fillers, diff)
        /\ trans_syll_after <= orig_syllables
        /\ trans_syll_after = orig_syllables <=> diff <= max_fillers

\* fillers have been put before a final punctuation mark and fall short of
\* the original's syllables
C17_Witness ==
    /\ EnhanceReturned /\ raised = ""
    /\ diff > max_fillers /\ max_fillers > 0
    /\ translated /= <<>> /\ EndsInFinalPunctuation(strip(translated))
    /\ trans_syll_before > 0
    /\ trans_syll_after = trans_syll_before + max_fillers

(***************************************************************************)
(* Properties of main.                                                     *)
(***************************************************************************)
SelectedSet == {selected[i] : i \in 1..Len(selected)}

PoolRan == pc \in {"main.as_completed", "main.log", "main.blend", "main.done",
                   "main.raised"}

\* s begins with "Error during translation: "
IsErrorMarker(s) ==
    Len(s) >= Len(ErrorMarker) /\ SubSeq(s, 1, Len(ErrorMarker)) = ErrorMarker

HasEntries(l) ==
    /\ l \in DOMAIN translations_clean.value
    /\ l \in DOMAIN translations_enhanced.value
    /\ l \in DOMAIN overall_stats.value

\* the entries of l are those of the tuple r
EntriesAre(l, r) ==
    /\ translations_clean.value[l] = r.trans
    /\ translations_enhanced.value[l] = r.enhanced
    /\ overall_stats.value[l] =
         [orig_syll |-> r.orig_syll, trans_before |-> r.trans_before,
          trans_after |-> r.trans_after, diff |-> r.diff, code |-> r.code]

\* what translate_and_enhance returns for l when its request succeeds
WithoutFailure(l) ==
    translate_and_enhance_result(l, translatedText[available_languages[l]])

\* the results of a finished run, for the set of failed requests it had
IsolatedResults ==
    \A l \in SelectedSet :
        /\ HasEntries(l)
        /\ translations_clean.value[l] =
             translate_utils_translate_text(available_languages[l], translate_client,
                                            l \in failing)
        /\ (translate_client = "client" /\ l \in failing) =>
             /\ translations_clean.value[l] = ErrorMarker \o RequestError
             /\ IsErrorMarker(translations_enhanced.value[l])
             /\ EntriesAre(l, translate_and_enhance_result(l, ErrorMarker \o RequestError))
        /\ (translate_client = "client" /\ l \notin failing) =>
             EntriesAre(l, WithoutFailure(l))

\* C14 (as claimed): whatever requests fail, the run does not end in an
\* exception, and once the pool has been collected every selected language has
\* its entries: the error marker for a failed request, and for every other
\* language the entries it has when no request fails.
C14_FailureIsolation ==
    /\ pc /= "main.raised"
    /\ pc \in {"main.blend", "main.done"} => IsolatedResults

\* C14 (what holds): when the pool threads share the session of the main
\* thread, the run never raises and a collected pool has the isolated results.
C14_WithSessionAttached ==
    script_run_ctx = "attached" =>
        /\ pc /= "main.raised"
        /\ pc \in {"main.blend", "main.done"} => IsolatedResults

\* the position of a pool thread as the number of steps it has left
StepsOfWorker(l) ==
    CASE workers[l].pc = "submitted" -> 3
      [] workers[l].pc = "log" -> 2
      [] workers[l].pc = "log.write" -> 1
      [] OTHER -> 0

RECURSIVE StepsOfWorkers(_)
StepsOfWorkers(ls) ==
    IF ls = {} THEN 0
    ELSE LET l == CHOOSE x \in ls : TRUE
         IN StepsOfWorker(l) + StepsOfWorkers(ls \ {l})

\* a bound on the number of steps a run has left
StepsLeft ==
    StepsOfWorkers(DOMAIN workers) + 2 * Cardinality(pending)
    + (CASE pc = "main" -> 3 + 5 * Len(selected)
         [] pc = "main.as_completed" -> 1
         [] pc = "main.log" -> 2
         [] pc = "main.blend" -> 1
         [] OTHER -> 0)

\* C14 (what holds): a run stops only at the early return, at the end of the
\* blending step or in the KeyError; anywhere else a pool thread or the main
\* thread has a step to take.
C14_StopsOnlyAtTheEnd ==
    pc \notin {"main.return", "main.done", "main.raised"} =>
        \/ pc \in {"main", "main.log", "main.blend"}
        \/ \E l \in DOMAIN workers : workers[l].pc /= "done"
        \/ \E l \in pending : workers[l].pc = "done"

\* C14 (what holds): every step brings the run nearer to its end, so the run
\* of threads that keep running stops, and by C14_StopsOnlyAtTheEnd at the end.
C14_EveryStepAdvances == [][StepsLeft' < StepsLeft]_vars

\* C14 (what holds): a request that fails in a pool thread without the session
\* leaves its language without entries, and the run stops in the KeyError.
C14_FailureWithoutSessionRaises ==
    (pc \in {"main.blend", "main.done", "main.raised"} /\ script_run_ctx = "missing"
        /\ translate_client = "client" /\ failing /= {}) =>
        /\ pc /= "main.done"
        /\ \A l \in failing : ~HasEntries(l)
        /\ \A l \in SelectedSet \ failing : HasEntries(l) /\ EntriesAre(l, WithoutFailure(l))

InLog(msg) == \E i \in 1..Len(melosphere_logs) : melosphere_logs[i] = msg

\* the pool thread of l has returned from log
WorkerLogged(l) ==
    /\ l \in DOMAIN workers /\ workers[l].pc = "done"
    /\ translate_client = "client" /\ l \in failing /\ script_run_ctx = "attached"

\* the main thread has returned from log for the future of l
CollectorLogged(l) ==
    /\ l \in DOMAIN workers /\ PoolRan /\ l \notin pending /\ fut /= l
    /\ workers[l].result.exc = ""

\* C15 (as claimed): no interleaving loses an update: whatever a pool thread
\* or the main thread has stored stays stored, the messages appended to the
\* session log included.
C15_NoUpdateLost ==
    \A l \in SelectedSet :
        /\ WorkerLogged(l) => InLog(TranslationErrorMsg(available_languages[l]))
        /\ CollectorLogged(l) => InLog(TranslatedMsg(l)) /\ HasEntries(l)

\* C15 (as claimed): while the pool runs, a pool thread writes nothing but its
\* own future.
C15_WorkersWriteNoSharedState ==
    [][(\E l \in DOMAIN workers : workers'[l] /= workers[l] /\ pc /= "main")
            => melosphere_logs' = melosphere_logs]_vars

\* C15 (what holds): the results mappings are written by the main thread
\* alone, one new language at a time, and keep every entry they have.
C15_MappingsWrittenByCollectorOnly ==
    [][(<<translations_clean, translations_enhanced, overall_stats>>'
            /= <<translations_clean, translations_enhanced, overall_stats>>)
        => /\ pc = "main.as_completed" /\ pc' = "main.log"
           /\ fut' \notin DOMAIN translations_enhanced.value
           /\ DOMAIN translations_enhanced.value' =
                DOMAIN translations_enhanced.value \cup {fut'}
           /\ \A l \in DOMAIN translations_enhanced.value :
                /\ translations_clean.value'[l] = translations_clean.value[l]
                /\ translations_enhanced.value'[l] = translations_enhanced.value[l]
                /\ overall_stats.value'[l] = overall_stats.value[l]]_vars

\* C15 (what holds): the log keeps every message when no pool thread writes
\* it, that is when no request fails or the pool threads have no session.
C15_LogKeptWithoutFailure ==
    (translate_client = "None" \/ failing = {} \/ script_run_ctx = "missing") =>
        \A l \in SelectedSet : CollectorLogged(l) => InLog(TranslatedMsg(l))

\* every future returned its tuple
EveryFutureSucceeded ==
    \A l \in DOMAIN workers : workers[l].pc = "done" /\ workers[l].result.exc = ""

\* the tuple of l as the inputs of the run determine it
TupleOf(l) ==
    translate_and_enhance_result(l,
        translate_utils_translate_text(available_languages[l], translate_client,
                                       l \in failing))

\* C18: when every future has succeeded, whatever the order of completion,
\* the list handed to the blender holds the enhanced translations in the order
\* of the selection, the results mappings hold for every selected language
\* the tuple the inputs determine, and the blended string is the blend of that
\* list: none of them depends on the order of completion.
C18_CompletionOrderIndependent ==
    (pc = "main.done" /\ EveryFutureSucceeded) =>
        /\ lyric_line_clean = app_clean_text(lyric_line)
        /\ translations_list_for_blend =
             [i \in 1..Len(selected) |-> TupleOf(selected[i]).enhanced]
        /\ DOMAIN translations_clean.value = SelectedSet
        /\ DOMAIN translations_enhanced.value = SelectedSet
        /\ DOMAIN overall_stats.value = SelectedSet
        /\ \A l \in SelectedSet : EntriesAre(l, TupleOf(l))
        /\ blended = app_remove_consecutive_duplicates(
                blend_by_mode(mode, app_clean_text(lyric_line),
                    [i \in 1..Len(selected) |-> TupleOf(selected[i]).enhanced]))

\* the enhanced translations in the order of their insertion
EnhancedInCompletionOrder ==
    [i \in 1..Len(translations_enhanced.order) |->
        translations_enhanced.value[translations_enhanced.order[i]]]

\* C18: a finished run whose futures completed in an order other than the
\* selection's, with different translations and a blend that shows the order
C18_Witness ==
    /\ pc = "main.done" /\ EveryFutureSucceeded
    /\ Len(selected) >= 2
    /\ translations_enhanced.order /= selected
    /\ translations_list_for_blend /= EnhancedInCompletionOrder
    /\ blended /= <<>>
    /\ blended /= app_remove_consecutive_duplicates(
            blend_by_mode(mode, lyric_line_clean, EnhancedInCompletionOrder))

====
